---- MODULE Spec2Model ----
(***************************************************************************)
(* Model of Assets/generate_icon.py: the icon generator.                   *)
(*                                                                         *)
(*   Spec          generate_app_icon(), one action per statement, run up   *)
(*                 to MaxRuns times against one output directory whose     *)
(*                 operations may fail.                                    *)
(*   SpecGradient  create_gradient(width, height, ..) for small sizes,     *)
(*                 one action per iteration of its pixel loop.             *)
(*   SpecMask      the two rounded_rectangle masks of generate_app_icon,   *)
(*                 observed at one pixel of the canvas.                    *)
(***************************************************************************)
EXTENDS Integers, Sequences, FiniteSets, TLC

VARIABLES
    \* generate_app_icon
    pc,           \* the statement about to run; "done", "failed", "idle"
    run,          \* which invocation of the script this is
    fs,           \* the output directory: [dir, files]
    start,        \* fs when this invocation started
    prev,         \* how the previous invocation ended, and fs at that point
    out,          \* lines printed by this invocation
    trace,        \* filesystem and console steps of this invocation, in order
    err,          \* the exception that ended this invocation, or "none"
    bufs,         \* image and mask buffers created by this invocation
    uses,         \* per buffer: times it was the input of a paste or a resize
    mask,         \* outer rounded mask: [box, radius]
    inner_mask,   \* inner rounded mask: [box, radius]
    icon_shape,   \* the badge canvas, as the operations applied to it
    it,           \* iterations completed of the current glow loop
    icon_images,  \* resampled frames
    \* create_gradient
    gpc, width, height, x, y, mask_data, gmask,
    \* the masks at one pixel
    probe, outer_px, inner_px

mainVars == <<pc, run, fs, start, prev, out, trace, err, bufs, uses, mask,
              inner_mask, icon_shape, it, icon_images>>
gradVars == <<gpc, width, height, x, y, mask_data, gmask>>
maskVars == <<probe, outer_px, inner_px>>
vars == <<mainVars, gradVars, maskVars>>

(***************************************************************************)
(* Bounds of the model.                                                    *)
(***************************************************************************)
MaxRuns == 2      \* invocations of the script in a row
MaxDim == 8       \* largest width and height given to create_gradient

(***************************************************************************)
(* Configuration of generate_app_icon.                                     *)
(***************************************************************************)
size == 256
padding == 20
border_width == 8
corner_radius == 60

color_cyan == <<0, 212, 255>>
color_purple == <<189, 0, 255>>
color_bg == <<10, 10, 18>>
color_white == <<255, 255, 255>>

center_x == size \div 2
center_y == size \div 2

arrow_width == 20
arrow_size == 60
arrow_offset_x == -30

p1 == <<center_x + arrow_offset_x - (arrow_size \div 2), center_y - arrow_size>>
p2 == <<center_x + arrow_offset_x + (arrow_size \div 2), center_y>>
p3 == <<center_x + arrow_offset_x - (arrow_size \div 2), center_y + arrow_size>>

cursor_w == 50
cursor_h == 15
cursor_x == center_x + 30
cursor_y == center_y + 40
cursor_rect == <<cursor_x, cursor_y, cursor_x + cursor_w, cursor_y + cursor_h>>

output_path == "app.ico"
png_path_same == "app.ico"
png_path == "app.png"

sizes_no48 == <<<<256, 256>>, <<128, 128>>, <<64, 64>>, <<32, 32>>, <<16, 16>>>>
sizes == <<<<256, 256>>, <<128, 128>>, <<64, 64>>, <<48, 48>>, <<32, 32>>, <<16, 16>>>>

\* range(5, 0, -1), the passes of both glow loops
GlowPassesAscending == <<1, 2, 3, 4, 5>>
GlowPasses == <<5, 4, 3, 2, 1>>


(***************************************************************************)
(* Values.                                                                 *)
(***************************************************************************)
canvas_size == <<size, size>>

\* Image.new('L', (size, size), 0): nothing drawn yet
NoMask == [box |-> <<0, 0, 0, 0>>, radius |-> 0]

\* ImageDraw.rounded_rectangle([(x0, y0), (x1, y1)], radius=r, fill=255)
RoundedRectangle(x0, y0, x1, y1, r) == [box |-> <<x0, y0, x1, y1>>, radius |-> r]

inner_padding_plain == padding
inner_padding == padding + border_width

inner_radius == corner_radius - 5

\* the arguments of the two rounded_rectangle calls
OuterShape ==
    RoundedRectangle(padding, padding, size - padding, size - padding, corner_radius)
InnerShape ==
    RoundedRectangle(inner_padding, inner_padding, size - inner_padding,
                     size - inner_padding, inner_radius)

\* A fill given to ImageDraw on an RGBA image: an RGB tuple is opaque.
Ink(fill) == IF Len(fill) = 3 THEN fill \o <<255>> ELSE fill

\* n / d rounded to the nearest integer, a tie to the even one (Python's round)
RoundNearest(n, d) ==
    LET f == n \div d
        twice == 2 * (n % d)
    IN  IF twice < d THEN f
        ELSE IF twice > d THEN f + 1
        ELSE IF f % 2 = 0 THEN f ELSE f + 1

\* alpha = int(50 / i)
GlowAlphaRounded(i) == RoundNearest(50, i)
GlowAlpha(i) == 50 \div i

\* One operation applied to a canvas.
PasteOp(src, m) ==
    [op |-> "paste", src |-> src, mask |-> m, fill |-> <<>>, width |-> 0, xy |-> <<0, 0>>]
LineOp(fill, w) ==
    [op |-> "line", src |-> "", mask |-> NoMask, fill |-> Ink(fill), width |-> w,
     xy |-> p1 \o p2 \o p3]
RectangleOp(r, fill) ==
    [op |-> "rectangle", src |-> "", mask |-> NoMask, fill |-> Ink(fill), width |-> 0,
     xy |-> r]

\* the image pasted through inner_mask
PanelSourceGradient == "gradient"
PanelSource == "dark_layer"

FrameNames == <<"frame_256", "frame_128", "frame_64", "frame_48", "frame_32", "frame_16">>
Buffers == {"img", "mask", "gradient", "top", "gradient_mask", "icon_shape",
            "inner_mask", "dark_layer"} \cup {FrameNames[n] : n \in 1..Len(FrameNames)}

\* A buffer is the source or the mask of a paste, or the source of a resize.
Use(u, names) == [b \in Buffers |-> IF b \in names THEN u[b] + 1 ELSE u[b]]

\* Image.resize(s, LANCZOS): a request for the image's own size returns a copy.
Resize(pixels, s) == [size |-> s, pixels |-> pixels, resampled |-> s # canvas_size]

\* the image written to png_path
PngSourceLastFrame == icon_images[Len(icon_images)]
PngSource == [size |-> canvas_size, pixels |-> icon_shape, resampled |-> FALSE]

\* File contents.
Absent == [format |-> "absent", sizes |-> <<>>, base |-> <<>>, append_images |-> <<>>]
Stale == [format |-> "stale", sizes |-> <<>>, base |-> <<>>, append_images |-> <<>>]
Partial == [format |-> "partial", sizes |-> <<>>, base |-> <<>>, append_images |-> <<>>]
IcoFile ==
    [format |-> "ICO", sizes |-> sizes, base |-> <<Head(icon_images)>>,
     append_images |-> Tail(icon_images)]
PngFile == [format |-> "PNG", sizes |-> <<>>, base |-> <<PngSource>>, append_images |-> <<>>]

FileNames == {"app.ico", "app.png", "notes.txt"}
InitialFS ==
    {[dir |-> FALSE, files |-> [n \in FileNames |-> Absent]]}
    \cup {[dir |-> TRUE, files |-> f] : f \in [FileNames -> {Absent, Stale}]}

Listing(d) == {n \in FileNames : d.files[n].format # "absent"}

\* not os.path.exists(output_dir)
DirMissingAlways == TRUE
DirMissing == ~fs.dir

\* An exception raised in generate_app_icon is caught nowhere: the call at the
\* bottom of the script ends the process. next is the statement that would follow.
Swallow(next) == next
Propagate(next) == "failed"

Event(op, path) == [op |-> op, path |-> path]

(***************************************************************************)
(* generate_app_icon, statement by statement.                              *)
(***************************************************************************)
MainInit ==
    /\ pc = "new_img"
    /\ run = 1
    /\ fs \in InitialFS
    /\ start = fs
    /\ prev = [status |-> "none", files |-> fs.files]
    /\ out = <<>>
    /\ trace = <<>>
    /\ err = "none"
    /\ bufs = {}
    /\ uses = [b \in Buffers |-> 0]
    /\ mask = NoMask
    /\ inner_mask = NoMask
    /\ icon_shape = <<>>
    /\ it = 0
    /\ icon_images = <<>>

MainIdle ==
    /\ pc = "idle"
    /\ run = 0
    /\ fs = [dir |-> FALSE, files |-> [n \in FileNames |-> Absent]]
    /\ start = fs
    /\ prev = [status |-> "none", files |-> fs.files]
    /\ out = <<>>
    /\ trace = <<>>
    /\ err = "none"
    /\ bufs = {}
    /\ uses = [b \in Buffers |-> 0]
    /\ mask = NoMask
    /\ inner_mask = NoMask
    /\ icon_shape = <<>>
    /\ it = 0
    /\ icon_images = <<>>

env == <<run, fs, start, prev, out, trace, err>>
others == <<gradVars, maskVars>>

\* img = Image.new('RGBA', (size, size), (0, 0, 0, 0))
NewImg ==
    /\ pc = "new_img"
    /\ pc' = "draw_mask"
    /\ bufs' = bufs \cup {"img"}
    /\ UNCHANGED <<others, env, uses, mask, inner_mask, icon_shape, it, icon_images>>

\* mask = Image.new('L', ..); draw_mask.rounded_rectangle(..)
DrawMask ==
    /\ pc = "draw_mask"
    /\ pc' = "create_gradient"
    /\ bufs' = bufs \cup {"mask"}
    /\ mask' = OuterShape
    /\ UNCHANGED <<others, env, uses, inner_mask, icon_shape, it, icon_images>>

\* gradient = create_gradient(size, size, color_cyan, color_purple): base, top
\* and mask are created, top is pasted onto base through mask, base is returned.
CreateGradient ==
    /\ pc = "create_gradient"
    /\ pc' = "new_icon_shape"
    /\ bufs' = bufs \cup {"gradient", "top", "gradient_mask"}
    /\ uses' = Use(uses, {"top", "gradient_mask"})
    /\ UNCHANGED <<others, env, mask, inner_mask, icon_shape, it, icon_images>>

\* icon_shape = Image.new('RGBA', (size, size), (0,0,0,0))
NewIconShape ==
    /\ pc = "new_icon_shape"
    /\ pc' = "paste_gradient"
    /\ bufs' = bufs \cup {"icon_shape"}
    /\ icon_shape' = <<>>
    /\ UNCHANGED <<others, env, uses, mask, inner_mask, it, icon_images>>

\* icon_shape.paste(gradient, (0,0), mask)
PasteGradient ==
    /\ pc = "paste_gradient"
    /\ pc' = "draw_inner_mask"
    /\ icon_shape' = Append(icon_shape, PasteOp("gradient", mask))
    /\ uses' = Use(uses, {"gradient", "mask"})
    /\ UNCHANGED <<others, env, bufs, mask, inner_mask, it, icon_images>>

\* inner_mask = Image.new('L', ..); draw_inner.rounded_rectangle(..)
DrawInnerMask ==
    /\ pc = "draw_inner_mask"
    /\ pc' = "new_dark_layer"
    /\ bufs' = bufs \cup {"inner_mask"}
    /\ inner_mask' = InnerShape
    /\ UNCHANGED <<others, env, uses, mask, icon_shape, it, icon_images>>

\* dark_layer = Image.new('RGBA', (size, size), color_bg)
NewDarkLayer ==
    /\ pc = "new_dark_layer"
    /\ pc' = "paste_dark"
    /\ bufs' = bufs \cup {"dark_layer"}
    /\ UNCHANGED <<others, env, uses, mask, inner_mask, icon_shape, it, icon_images>>

\* icon_shape.paste(dark_layer, (0,0), inner_mask)
PasteDark ==
    /\ pc = "paste_dark"
    /\ pc' = "chevron_glow"
    /\ icon_shape' = Append(icon_shape, PasteOp(PanelSource, inner_mask))
    /\ uses' = Use(uses, {PanelSource, "inner_mask"})
    /\ UNCHANGED <<others, env, bufs, mask, inner_mask, it, icon_images>>

\* for i in range(5, 0, -1): draw.line([p1, p2, p3], fill=color_cyan + (alpha,), width=w)
ChevronGlow ==
    /\ pc = "chevron_glow"
    /\ it < Len(GlowPasses)
    /\ LET i == GlowPasses[it + 1]
           alpha == GlowAlpha(i)
           w == arrow_width + (i * 4)
       IN  icon_shape' = Append(icon_shape, LineOp(color_cyan \o <<alpha>>, w))
    /\ it' = IF it + 1 = Len(GlowPasses) THEN 0 ELSE it + 1
    /\ pc' = IF it + 1 = Len(GlowPasses) THEN "chevron_main" ELSE "chevron_glow"
    /\ UNCHANGED <<others, env, bufs, uses, mask, inner_mask, icon_images>>

\* draw.line([p1, p2, p3], fill=color_white, width=arrow_width, joint='curve')
ChevronMain ==
    /\ pc = "chevron_main"
    /\ pc' = "cursor_glow"
    /\ icon_shape' = Append(icon_shape, LineOp(color_white, arrow_width))
    /\ UNCHANGED <<others, env, bufs, uses, mask, inner_mask, it, icon_images>>

\* for i in range(5, 0, -1): draw.rectangle(r, fill=color_purple + (alpha,))
CursorGlow ==
    /\ pc = "cursor_glow"
    /\ it < Len(GlowPasses)
    /\ LET i == GlowPasses[it + 1]
           alpha == GlowAlpha(i)
           expand == i * 3
           r == <<cursor_rect[1] - expand, cursor_rect[2] - expand,
                  cursor_rect[3] + expand, cursor_rect[4] + expand>>
       IN  icon_shape' = Append(icon_shape, RectangleOp(r, color_purple \o <<alpha>>))
    /\ it' = IF it + 1 = Len(GlowPasses) THEN 0 ELSE it + 1
    /\ pc' = IF it + 1 = Len(GlowPasses) THEN "cursor_main" ELSE "cursor_glow"
    /\ UNCHANGED <<others, env, bufs, uses, mask, inner_mask, icon_images>>

\* draw.rectangle(cursor_rect, fill=color_purple)
CursorMain ==
    /\ pc = "cursor_main"
    /\ pc' = "check_dir"
    /\ icon_shape' = Append(icon_shape, RectangleOp(cursor_rect, color_purple))
    /\ UNCHANGED <<others, env, bufs, uses, mask, inner_mask, it, icon_images>>

\* if not os.path.exists(output_dir):
CheckDir ==
    /\ pc = "check_dir"
    /\ pc' = IF DirMissing THEN "makedirs" ELSE "resample"
    /\ UNCHANGED <<others, env, bufs, uses, mask, inner_mask, icon_shape, it, icon_images>>

\* os.makedirs(output_dir): raises FileExistsError on a directory that exists
MakeDirs ==
    /\ pc = "makedirs"
    /\ IF fs.dir
       THEN /\ pc' = Propagate("resample")
            /\ err' = "FileExistsError"
            /\ trace' = Append(trace, Event("fail", "makedirs"))
            /\ fs' = fs
       ELSE /\ pc' = "resample"
            /\ err' = err
            /\ trace' = Append(trace, Event("makedirs", "makedirs"))
            /\ fs' = [fs EXCEPT !.dir = TRUE]
    /\ UNCHANGED <<others, run, start, prev, out, bufs, uses, mask, inner_mask, icon_shape, it,
                   icon_images>>

\* os.makedirs(output_dir) fails (permission denied, invalid path, ..)
FailMakeDirs ==
    /\ pc = "makedirs"
    /\ ~fs.dir
    /\ pc' = Propagate("resample")
    /\ err' = "OSError"
    /\ trace' = Append(trace, Event("fail", "makedirs"))
    /\ UNCHANGED <<others, run, fs, start, prev, out, bufs, uses, mask, inner_mask, icon_shape, it,
                   icon_images>>

\* for s in sizes: resampled = icon_shape.resize(s, LANCZOS); icon_images.append(resampled)
Resample ==
    /\ pc = "resample"
    /\ Len(icon_images) < Len(sizes)
    /\ LET n == Len(icon_images) + 1
           s == sizes[n]
       IN  /\ icon_images' = Append(icon_images, Resize(icon_shape, s))
           /\ bufs' = bufs \cup {FrameNames[n]}
           /\ pc' = IF n = Len(sizes) THEN "save_ico" ELSE "resample"
    /\ uses' = Use(uses, {"icon_shape"})
    /\ UNCHANGED <<others, env, mask, inner_mask, icon_shape, it>>

\* icon_images[0].save(output_path, format='ICO', sizes=sizes, append_images=icon_images[1:])
SaveIco ==
    /\ pc = "save_ico"
    /\ fs.dir
    /\ pc' = "print_ico"
    /\ fs' = [fs EXCEPT !.files[output_path] = IcoFile]
    /\ trace' = Append(trace, Event("write", output_path))
    /\ UNCHANGED <<others, run, start, prev, out, err, bufs, uses, mask, inner_mask, icon_shape, it,
                   icon_images>>

\* the save fails: the file is as it was, or holds what was written before the failure
FailSaveIco ==
    /\ pc = "save_ico"
    /\ \E left \in {fs.files[output_path], Partial} :
          fs' = [fs EXCEPT !.files[output_path] = IF fs.dir THEN left ELSE @]
    /\ pc' = Propagate("print_ico")
    /\ err' = "OSError"
    /\ trace' = Append(trace, Event("fail", output_path))
    /\ UNCHANGED <<others, run, start, prev, out, bufs, uses, mask, inner_mask, icon_shape, it,
                   icon_images>>

\* print(f"Icon generated successfully at: {output_path}")
PrintIco ==
    /\ pc = "print_ico"
    /\ pc' = "save_png"
    /\ out' = Append(out, <<"Icon generated successfully at: ", output_path>>)
    /\ trace' = Append(trace, Event("print", output_path))
    /\ UNCHANGED <<others, run, fs, start, prev, err, bufs, uses, mask, inner_mask, icon_shape, it,
                   icon_images>>

\* icon_shape.save(png_path, format='PNG')
SavePng ==
    /\ pc = "save_png"
    /\ fs.dir
    /\ pc' = "print_png"
    /\ fs' = [fs EXCEPT !.files[png_path] = PngFile]
    /\ trace' = Append(trace, Event("write", png_path))
    /\ UNCHANGED <<others, run, start, prev, out, err, bufs, uses, mask, inner_mask, icon_shape, it,
                   icon_images>>

FailSavePng ==
    /\ pc = "save_png"
    /\ \E left \in {fs.files[png_path], Partial} :
          fs' = [fs EXCEPT !.files[png_path] = IF fs.dir THEN left ELSE @]
    /\ pc' = Propagate("print_png")
    /\ err' = "OSError"
    /\ trace' = Append(trace, Event("fail", png_path))
    /\ UNCHANGED <<others, run, start, prev, out, bufs, uses, mask, inner_mask, icon_shape, it,
                   icon_images>>

\* print(f"PNG version saved at: {png_path}")
PrintPng ==
    /\ pc = "print_png"
    /\ pc' = "done"
    /\ out' = Append(out, <<"PNG version saved at: ", png_path>>)
    /\ trace' = Append(trace, Event("print", png_path))
    /\ UNCHANGED <<others, run, fs, start, prev, err, bufs, uses, mask, inner_mask, icon_shape, it,
                   icon_images>>

\* The script is invoked again on the directory the last invocation left.
RunAgain ==
    /\ pc \in {"done", "failed"}
    /\ run < MaxRuns
    /\ pc' = "new_img"
    /\ run' = run + 1
    /\ start' = fs
    /\ prev' = [status |-> pc, files |-> fs.files]
    /\ out' = <<>>
    /\ trace' = <<>>
    /\ err' = "none"
    /\ bufs' = {}
    /\ uses' = [b \in Buffers |-> 0]
    /\ mask' = NoMask
    /\ inner_mask' = NoMask
    /\ icon_shape' = <<>>
    /\ it' = 0
    /\ icon_images' = <<>>
    /\ UNCHANGED <<others, fs>>

GradIdle ==
    /\ gpc = "idle"
    /\ width = 0
    /\ height = 0
    /\ x = 0
    /\ y = 0
    /\ mask_data = <<>>
    /\ gmask = <<>>

MaskIdle ==
    /\ probe = <<0, 0>>
    /\ outer_px = -1
    /\ inner_px = -1

Init == MainInit /\ GradIdle /\ MaskIdle

Next ==
    \/ NewImg
    \/ DrawMask
    \/ CreateGradient
    \/ NewIconShape
    \/ PasteGradient
    \/ DrawInnerMask
    \/ NewDarkLayer
    \/ PasteDark
    \/ ChevronGlow
    \/ ChevronMain
    \/ CursorGlow
    \/ CursorMain
    \/ CheckDir
    \/ MakeDirs
    \/ FailMakeDirs
    \/ Resample
    \/ SaveIco
    \/ FailSaveIco
    \/ PrintIco
    \/ SavePng
    \/ FailSavePng
    \/ PrintPng
    \/ RunAgain

Spec == Init /\ [][Next]_vars


(***************************************************************************)
(* create_gradient(width, height, start_color, end_color).                 *)
(***************************************************************************)
Max(a, b) == IF a >= b THEN a ELSE b

\* int(255 * p) with p = (x + y) / (width + height).  p is a double; for every
\* width + height below 2^40 the double product truncates to the same integer
\* as the exact quotient, so the quotient is computed on integers here.
MaskValueRounded(px, py, w, h) == (2 * 255 * (px + py) + (w + h)) \div (2 * (w + h))
MaskValue(px, py, w, h) == (255 * (px + py)) \div (w + h)

GradInit ==
    /\ gpc = "loop"
    /\ width \in 1..MaxDim
    /\ height \in 1..MaxDim
    /\ x = 0
    /\ y = 0
    /\ mask_data = <<>>
    /\ gmask = <<>>

\* for y in range(height): for x in range(width): mask_data.append(int(255 * p))
AppendMaskData ==
    /\ gpc = "loop"
    /\ y < height
    /\ mask_data' = Append(mask_data, MaskValue(x, y, width, height))
    /\ x' = IF x + 1 = width THEN 0 ELSE x + 1
    /\ y' = IF x + 1 = width THEN y + 1 ELSE y
    /\ gpc' = IF x + 1 = width /\ y + 1 = height THEN "putdata" ELSE "loop"
    /\ UNCHANGED <<width, height, gmask, mainVars, maskVars>>

\* mask.putdata(mask_data): the flat sequence fills the mask row by row
PutData ==
    /\ gpc = "putdata"
    /\ gmask' = [q \in (0..(width - 1)) \X (0..(height - 1)) |->
                    mask_data[q[2] * width + q[1] + 1]]
    /\ gpc' = "paste"
    /\ UNCHANGED <<width, height, x, y, mask_data, mainVars, maskVars>>

\* base.paste(top, (0, 0), mask); return base
PasteTop ==
    /\ gpc = "paste"
    /\ gpc' = "return"
    /\ UNCHANGED <<width, height, x, y, mask_data, gmask, mainVars, maskVars>>

InitGradient == MainIdle /\ GradInit /\ MaskIdle

NextGradient ==
    \/ AppendMaskData
    \/ PutData
    \/ PasteTop

SpecGradient == InitGradient /\ [][NextGradient]_vars

(***************************************************************************)
(* The two masks of generate_app_icon at one pixel, taken as hard-edged    *)
(* regions: a rounded rectangle is the set of points within its radius of  *)
(* the rectangle spanned by its four corner centres.                       *)
(***************************************************************************)
\* squared distance from (px, py) to the rectangle of corner centres of shape m
CoreDistSq(m, px, py) ==
    LET r == m.radius
        dx == Max(Max(m.box[1] + r - px, px - (m.box[3] - r)), 0)
        dy == Max(Max(m.box[2] + r - py, py - (m.box[4] - r)), 0)
    IN  dx * dx + dy * dy

\* the value rounded_rectangle(.., fill=255) leaves at (px, py) of a mask of zeros
MaskPixel(m, px, py) == IF CoreDistSq(m, px, py) <= m.radius * m.radius THEN 255 ELSE 0

MaskInit ==
    /\ probe \in (0..(size - 1)) \X (0..(size - 1))
    /\ outer_px = -1
    /\ inner_px = -1

\* mask = Image.new('L', (size, size), 0); draw_mask.rounded_rectangle(..)
RasterMask ==
    /\ outer_px = -1
    /\ outer_px' = MaskPixel(OuterShape, probe[1], probe[2])
    /\ UNCHANGED <<probe, inner_px, mainVars, gradVars>>

\* inner_mask = Image.new('L', (size, size), 0); draw_inner.rounded_rectangle(..)
RasterInnerMask ==
    /\ outer_px # -1
    /\ inner_px = -1
    /\ inner_px' = MaskPixel(InnerShape, probe[1], probe[2])
    /\ UNCHANGED <<probe, outer_px, mainVars, gradVars>>

InitMask == MainIdle /\ GradIdle /\ MaskInit

NextMask ==
    \/ RasterMask
    \/ RasterInnerMask

SpecMask == InitMask /\ [][NextMask]_vars


(***************************************************************************)
(* Properties.                                                             *)
(***************************************************************************)
Lines == SelectSeq(icon_shape, LAMBDA o : o.op = "line")
Rectangles == SelectSeq(icon_shape, LAMBDA o : o.op = "rectangle")
Alpha(o) == o.fill[4]
Expansion(o) == cursor_rect[1] - o.xy[1]
Has(ev) == \E k \in 1..Len(trace) : trace[k] = ev
GlyphsDrawn == Len(Lines) = 6 /\ Len(Rectangles) = 6
BeforeGlyphs ==
    {"idle", "new_img", "draw_mask", "create_gradient", "new_icon_shape", "paste_gradient",
     "draw_inner_mask", "new_dark_layer", "paste_dark", "chevron_glow", "chevron_main"}

\* v is the integer truncation of n / d, for n >= 0 and d > 0
IsTruncation(v, n, d) == v * d <= n /\ n < (v + 1) * d

\* C1: for every width, height >= 1 and every pixel (x, y) of the mask, the value
\* create_gradient computes is the integer truncation of 255 * (x + y) / (width +
\* height); it is 0 at (0, 0) and lies in 0..255 everywhere, the last pixel included.
C1_MaskIsTruncatedBlend ==
    /\ gpc \in {"loop", "putdata", "paste", "return"} =>
          \A k \in 1..Len(mask_data) :
             LET px == (k - 1) % width
                 py == (k - 1) \div width
             IN  /\ mask_data[k] \in 0..255
                 /\ IsTruncation(mask_data[k], 255 * (px + py), width + height)
    /\ gpc \in {"paste", "return"} =>
          /\ DOMAIN gmask = (0..(width - 1)) \X (0..(height - 1))
          /\ gmask[<<0, 0>>] = 0
          /\ gmask[<<width - 1, height - 1>>] \in 0..255
          /\ \A q \in DOMAIN gmask :
                IsTruncation(gmask[q], 255 * (q[1] + q[2]), width + height)

C1_Witness ==
    /\ gpc = "return"
    /\ width = 2
    /\ height = 2
    /\ gmask[<<1, 1>>] = 127
    /\ gmask[<<0, 1>>] = 63

\* The glow strokes drawn so far have the extents of passes 5, 4, .. and the alpha a(i).
GlowPassesAre(a(_)) ==
    /\ \A j \in 1..5 :
          j <= Len(Lines) =>
             /\ Lines[j].width = arrow_width + (6 - j) * 4
             /\ Lines[j].fill = color_cyan \o <<a(6 - j)>>
    /\ \A j \in 1..5 :
          j <= Len(Rectangles) =>
             /\ Rectangles[j].xy = <<cursor_rect[1] - (6 - j) * 3, cursor_rect[2] - (6 - j) * 3,
                                     cursor_rect[3] + (6 - j) * 3, cursor_rect[4] + (6 - j) * 3>>
             /\ Rectangles[j].fill = color_purple \o <<a(6 - j)>>

\* C2 as claimed: in glow pass i of 5, 4, 3, 2, 1 the chevron is stroked with width
\* 20 + i*4 and the cursor bar is expanded by i*3 on all four sides, both with alpha
\* 50 / i rounded to the nearest integer.
C2_AlphaIsRounded == GlowPassesAre(LAMBDA i : RoundNearest(50, i))

\* C2 as amended: the same widths and expansions, with alpha the integer truncation
\* of 50 / i (10, 12, 16, 25, 50 for i = 5, 4, 3, 2, 1).
C2_AlphaIsTruncated ==
    /\ GlowPassesAre(LAMBDA i : CHOOSE a \in 0..50 : IsTruncation(a, 50, i))
    /\ pc \notin BeforeGlyphs => Len(Lines) >= 5
    /\ pc \notin BeforeGlyphs \cup {"cursor_glow", "cursor_main"} => Len(Rectangles) >= 5

C2_Witness ==
    /\ pc = "check_dir"
    /\ Alpha(Lines[3]) = 16
    /\ Alpha(Rectangles[3]) = 16
    /\ Alpha(Lines[2]) = 12

\* ops is a glow stack: its first five strokes get strictly narrower and strictly
\* more opaque, and a sixth is narrower than all of them, opaque and of colour c.
GlowStack(ops, extent(_), c) ==
    /\ Len(ops) <= 6
    /\ \A j \in 1..4 :
          j + 1 <= Len(ops) =>
             /\ extent(ops[j]) > extent(ops[j + 1])
             /\ Alpha(ops[j]) < Alpha(ops[j + 1])
    /\ Len(ops) = 6 =>
          /\ \A j \in 1..5 : extent(ops[6]) < extent(ops[j])
          /\ ops[6].fill = c \o <<255>>

\* C3: each glyph is drawn as five glow strokes of strictly decreasing extent and
\* strictly increasing alpha, then one final stroke, drawn last, narrower than every
\* glow stroke and opaque (white chevron, purple cursor bar); every chevron stroke
\* precedes every cursor-bar stroke and every stroke follows the paste of the dark panel.
C3_GlowStacksInOrder ==
    /\ GlowStack(Lines, LAMBDA o : o.width, color_white)
    /\ GlowStack(Rectangles, Expansion, color_purple)
    /\ pc \notin BeforeGlyphs => Len(Lines) = 6
    /\ pc \notin BeforeGlyphs \cup {"cursor_glow", "cursor_main"} => Len(Rectangles) = 6
    /\ \A a \in 1..Len(icon_shape) : \A b \in 1..Len(icon_shape) :
          icon_shape[a].op = "line" /\ icon_shape[b].op = "rectangle" => a < b
    /\ \A a \in 1..Len(icon_shape) :
          icon_shape[a].op \in {"line", "rectangle"} =>
             \E b \in 1..(a - 1) :
                /\ icon_shape[b].op = "paste"
                /\ icon_shape[b].src = "dark_layer"
                /\ icon_shape[b].mask = inner_mask

C3_Witness ==
    /\ pc = "check_dir"
    /\ GlyphsDrawn
    /\ Lines[6].width = 20
    /\ Lines[1].width = 40
    /\ Expansion(Rectangles[6]) = 0


\* the point (px, py) lies in shape m at distance at least d from m's boundary:
\* the boundary is the set of points at distance m.radius from the rectangle of
\* corner centres, so the distance to it from inside is the radius less the
\* distance to that rectangle
DeepInside(m, px, py, d) == CoreDistSq(m, px, py) <= (m.radius - d) * (m.radius - d)

MasksDrawn == outer_px # -1 /\ inner_px # -1

InsetByBorder ==
    /\ InnerShape.box[1] = OuterShape.box[1] + border_width
    /\ InnerShape.box[2] = OuterShape.box[2] + border_width
    /\ InnerShape.box[3] = OuterShape.box[3] - border_width
    /\ InnerShape.box[4] = OuterShape.box[4] - border_width
    /\ InnerShape.radius = OuterShape.radius - 5
    /\ OuterShape = [box |-> <<20, 20, 236, 236>>, radius |-> 60]

\* C4 as claimed: the inner mask's box is inset by border_width on each side, its
\* radius is corner_radius - 5, and the inner rounded rectangle is exactly the set of
\* points of the outer one at distance at least border_width from its boundary.
C4_RingIsUniform ==
    MasksDrawn =>
       /\ InsetByBorder
       /\ inner_px = 255 <=>
             (outer_px = 255 /\ DeepInside(OuterShape, probe[1], probe[2], border_width))

\* a coordinate between the inner panel's corner centres, where its edges are straight
OnStraightSpan(c) ==
    /\ InnerShape.box[1] + InnerShape.radius <= c
    /\ c <= InnerShape.box[3] - InnerShape.radius

\* C4 as amended: the box is inset by border_width on each side and the radius is
\* corner_radius - 5; the inner rounded rectangle is contained in the set of points of
\* the outer one at distance at least border_width from its boundary, and equals it
\* along the panel's straight edges; around the corners the ring may be thicker.
C4_RingAtLeastBorder ==
    MasksDrawn =>
       /\ InsetByBorder
       /\ inner_px = 255 =>
             (outer_px = 255 /\ DeepInside(OuterShape, probe[1], probe[2], border_width))
       /\ OnStraightSpan(probe[1]) \/ OnStraightSpan(probe[2]) =>
             (inner_px = 255 <=>
                (outer_px = 255 /\ DeepInside(OuterShape, probe[1], probe[2], border_width)))

\* a pixel of a corner that is border_width or more inside the badge and still ring
C4_Witness ==
    /\ MasksDrawn
    /\ probe = <<44, 44>>
    /\ outer_px = 255
    /\ DeepInside(OuterShape, 44, 44, border_width)
    /\ inner_px = 0

Nominal == <<256, 128, 64, 48, 32, 16>>
AfterResample == {"save_ico", "print_ico", "save_png", "print_png", "done"}
IcoWritten == pc \in {"print_ico", "save_png", "print_png", "done"}
PngWritten == pc \in {"print_png", "done"}

\* C5: the resample targets are strictly descending, square and start with the canvas
\* size (256, 256); the encoder is handed exactly 6 frames, the i-th of the i-th size
\* of (256, 128, 64, 48, 32, 16), the first as the base image and five appended.
C5_SixFramesInOrder ==
    /\ sizes[1] = canvas_size
    /\ canvas_size = <<256, 256>>
    /\ \A j \in 1..Len(sizes) : sizes[j][1] = sizes[j][2]
    /\ \A j \in 1..(Len(sizes) - 1) : sizes[j][1] > sizes[j + 1][1]
    /\ Len(icon_images) <= 6
    /\ \A j \in 1..Len(icon_images) : icon_images[j].size = <<Nominal[j], Nominal[j]>>
    /\ pc \in AfterResample => Len(icon_images) = 6
    /\ IcoWritten =>
          LET ico == fs.files["app.ico"]
          IN  /\ ico.format = "ICO"
              /\ ico.base = <<icon_images[1]>>
              /\ ico.append_images = SubSeq(icon_images, 2, 6)
              /\ Len(ico.base \o ico.append_images) = 6
              /\ \A j \in 1..6 : ico.sizes[j] = <<Nominal[j], Nominal[j]>>

C5_Witness ==
    /\ pc = "print_ico"
    /\ Len(fs.files["app.ico"].append_images) = 5
    /\ fs.files["app.ico"].append_images[3].size = <<48, 48>>

\* C6: the PNG is 256x256 and pixel-identical to the icon's 256x256 frame: both hold
\* the canvas as it is after all glyph drawing, the canvas does not change between the
\* two writes, and the PNG is not resampled.
C6_PngEqualsNativeFrame ==
    /\ IcoWritten =>
          /\ fs.files["app.ico"].base[1].pixels = icon_shape
          /\ fs.files["app.ico"].base[1].size = <<256, 256>>
          /\ GlyphsDrawn
    /\ PngWritten =>
          LET png == fs.files["app.png"]
          IN  /\ png.format = "PNG"
              /\ Len(png.base) = 1
              /\ png.base[1].size = <<256, 256>>
              /\ ~png.base[1].resampled
              /\ png.base[1].pixels = icon_shape
              /\ png.base[1] = fs.files["app.ico"].base[1]

C6_Witness ==
    /\ pc = "done"
    /\ fs.files["app.png"].base[1] = fs.files["app.ico"].base[1]
    /\ Len(fs.files["app.png"].base[1].pixels) = 14

\* C7: run twice in a row on the same directory, whatever it held at first, the
\* generator raises no error of its own (only a failing filesystem operation ends a
\* run early), creates the directory only when it does not exist, and the second run
\* overwrites both files with content identical to the first run's.
C7_SecondRunIsIdentical ==
    /\ err # "FileExistsError"
    /\ pc = "failed" => err = "OSError"
    /\ pc = "makedirs" => ~fs.dir
    /\ Has(Event("makedirs", "makedirs")) => ~start.dir /\ fs.dir
    /\ pc = "done" /\ prev.status = "done" =>
          /\ Has(Event("write", "app.ico"))
          /\ Has(Event("write", "app.png"))
          /\ fs.files["app.ico"] = prev.files["app.ico"]
          /\ fs.files["app.png"] = prev.files["app.png"]
          /\ fs.files["app.ico"].format = "ICO"
          /\ fs.files["app.png"].format = "PNG"

C7_Witness ==
    /\ run = 2
    /\ pc = "done"
    /\ prev.status = "done"
    /\ start.dir
    /\ fs.files["app.ico"] = prev.files["app.ico"]

\* C8: a run without a failing filesystem operation writes app.ico, prints its line,
\* writes app.png, prints its line, in that order; started on an empty directory it
\* ends with exactly those two new files and two printed lines; and a line naming a
\* file is never printed before that file has been written.
C8_WritesThenConfirms ==
    /\ \A k \in 1..Len(trace) :
          trace[k].op = "print" =>
             \E j \in 1..(k - 1) : trace[j] = Event("write", trace[k].path)
    /\ \A k \in 1..Len(out) :
          /\ Has(Event("write", out[k][2]))
          /\ fs.files[out[k][2]].format \in {"ICO", "PNG"}
    /\ pc = "done" =>
          /\ Len(trace) >= 4
          /\ SubSeq(trace, Len(trace) - 3, Len(trace)) =
                <<Event("write", "app.ico"), Event("print", "app.ico"),
                  Event("write", "app.png"), Event("print", "app.png")>>
          /\ \A k \in 1..(Len(trace) - 4) : trace[k] = Event("makedirs", "makedirs")
          /\ out = <<<<"Icon generated successfully at: ", "app.ico">>,
                     <<"PNG version saved at: ", "app.png">>>>
          /\ Listing(fs) \ Listing(start) \subseteq {"app.ico", "app.png"}
          /\ Listing(start) = {} => Listing(fs) = {"app.ico", "app.png"}
          /\ fs.files["app.ico"].format = "ICO"
          /\ fs.files["app.png"].format = "PNG"

C8_Witness ==
    /\ pc = "done"
    /\ start.dir
    /\ Listing(start) = {}
    /\ Listing(fs) = {"app.ico", "app.png"}
    /\ Len(out) = 2

\* C9: a failing filesystem operation ends the run: it is the last step, nothing
\* written before it is removed, a failed write of app.ico leaves app.png unwritten
\* and nothing printed, and a failed write of app.png leaves app.ico and its line in
\* place and the second line unprinted.
C9_FailureIsTerminal ==
    /\ \A k \in 1..Len(trace) : trace[k].op = "fail" => k = Len(trace) /\ pc = "failed"
    /\ pc = "failed" =>
          /\ Len(trace) > 0
          /\ trace[Len(trace)].op = "fail"
          /\ Has(Event("makedirs", "makedirs")) => fs.dir
          /\ fs.files["notes.txt"] = start.files["notes.txt"]
    /\ Has(Event("fail", "makedirs")) =>
          /\ out = <<>>
          /\ fs = start
    /\ Has(Event("fail", "app.ico")) =>
          /\ out = <<>>
          /\ ~Has(Event("write", "app.ico"))
          /\ ~Has(Event("write", "app.png"))
          /\ fs.files["app.png"] = start.files["app.png"]
          /\ fs.dir
    /\ Has(Event("fail", "app.png")) =>
          /\ out = <<<<"Icon generated successfully at: ", "app.ico">>>>
          /\ Has(Event("write", "app.ico"))
          /\ ~Has(Event("write", "app.png"))
          /\ fs.files["app.ico"].format = "ICO"
          /\ fs.files["app.png"].format # "PNG" \/ fs.files["app.png"] = start.files["app.png"]
          /\ fs.dir

C9_Witness ==
    /\ pc = "failed"
    /\ Has(Event("fail", "app.png"))
    /\ fs.files["app.ico"].format = "ICO"
    /\ fs.files["app.png"].format = "partial"
    /\ Len(out) = 1

\* C10 as claimed: every buffer created during a run is the input of at most one
\* compositing or resampling step.
C10_EveryBufferUsedOnce == \A b \in Buffers : uses[b] <= 1

\* C10 as amended: every buffer other than the badge canvas is the input of at most
\* one compositing or resampling step; the badge canvas is the input of every
\* resampling step, six in a complete run.
C10_OnlyBadgeCanvasReused ==
    /\ \A b \in Buffers \ {"icon_shape"} : uses[b] <= 1
    /\ \A b \in Buffers \ bufs : uses[b] = 0
    /\ uses["icon_shape"] = Len(icon_images)
    /\ uses["icon_shape"] <= 6
    /\ pc \in AfterResample => uses["icon_shape"] = 6

C10_Witness ==
    /\ pc = "done"
    /\ uses["icon_shape"] = 6
    /\ uses["gradient"] = 1
    /\ uses["dark_layer"] = 1
    /\ uses["img"] = 0

====
